---- MODULE Spec2Model ----
(***************************************************************************)
(* Model of src/app.py: the conversion run that turns one uploaded table   *)
(* (antique_import) into three output tables (netsuite_import,             *)
(* shopify_import, netsuite_inventory_adjustment).                         *)
(*                                                                         *)
(* Representation.  A Python string is a sequence of tokens: the strings   *)
(* the code takes apart (SKU, description, headers) are sequences of       *)
(* one-character tokens, a literal of the source is one token, and the     *)
(* decimal rendering of a number is one token.  A number is an integer     *)
(* count of thousandths (1.5 is 1500).  A table cell is a record           *)
(* [k, n, s]: a missing value (NaN), a number or a string.                 *)
(*                                                                         *)
(* The run is one pass of the script over an uploaded file: ReadCsv, then  *)
(* MissingColumns (st.stop) or Clean, then one IterRow per row, then       *)
(* Display; an exception in the loop goes to Except.  st.stop raises a     *)
(* script-control exception that `except Exception` does not catch.        *)
(***************************************************************************)
EXTENDS Integers, Sequences, FiniteSets, TLC

\* uploaded_file: the file as uploaded (src/app.py:113); antique_import: the table
\* read from it and cleaned (118-150); netsuite_import, shopify_import,
\* netsuite_inventory_adjustment: the output tables (158-231); index: the number
\* of rows the loop has been through (163); pc: where the run stands; errors: the
\* st.error messages (141, 259); preview: the st.dataframe of the cleaned head
\* (155); shown: the tables put on the results page (243-256).
VARIABLES uploaded_file, antique_import, netsuite_import, shopify_import,
          netsuite_inventory_adjustment, index, pc, errors, preview, shown

vars == <<uploaded_file, antique_import, netsuite_import, shopify_import,
          netsuite_inventory_adjustment, index, pc, errors, preview, shown>>

-----------------------------------------------------------------------------
(* Bounds of the model *)

MaxRows == 2

MaxPad == 1

MaxDescLen == 5

MaxSkuLen == 7

-----------------------------------------------------------------------------
(* Cells *)

NaN == [k |-> "nan", n |-> 0, s |-> <<>>]

Num(v) == [k |-> "num", n |-> v, s |-> <<>>]

Txt(t) == [k |-> "str", n |-> 0, s |-> t]

IsNull(c) == c.k = "nan"

\* str(x) of a cell value: the text itself, "nan" for a missing value, the
\* decimal rendering (one token) for a number.
Str(c) ==
  IF c.k = "str" THEN c.s
  ELSE IF c.k = "nan" THEN <<"n", "a", "n">>
  ELSE <<ToString(c.n)>>

-----------------------------------------------------------------------------
(* Python string methods *)

Whitespace == {" ", "\t", "\n"}

RECURSIVE LStrip(_)
LStrip(s) ==
  IF s # <<>> /\ Head(s) \in Whitespace THEN LStrip(Tail(s)) ELSE s

RECURSIVE RStrip(_)
RStrip(s) ==
  IF s # <<>> /\ s[Len(s)] \in Whitespace
  THEN RStrip(SubSeq(s, 1, Len(s) - 1))
  ELSE s

\* str.strip()
Strip(s) == RStrip(LStrip(s))

\* sep occurs in s at position i
OccursAt(s, sep, i) ==
  /\ i >= 1
  /\ i + Len(sep) - 1 <= Len(s)
  /\ SubSeq(s, i, i + Len(sep) - 1) = sep

Contains(s, sep) == \E i \in 1..Len(s) : OccursAt(s, sep, i)

\* str.find(sep) + 1, or 0
Find(s, sep) ==
  IF Contains(s, sep)
  THEN CHOOSE i \in 1..Len(s) :
         OccursAt(s, sep, i) /\ \A j \in 1..(i - 1) : ~OccursAt(s, sep, j)
  ELSE 0

\* str.split(sep) for a non-empty sep: leftmost, non-overlapping
RECURSIVE Split(_, _)
Split(s, sep) ==
  LET i == Find(s, sep) IN
  IF i = 0 THEN <<s>>
  ELSE <<SubSeq(s, 1, i - 1)>> \o Split(SubSeq(s, i + Len(sep), Len(s)), sep)

\* sep.join(parts)
RECURSIVE Join(_, _)
Join(parts, sep) ==
  IF parts = <<>> THEN <<>>
  ELSE IF Len(parts) = 1 THEN parts[1]
  ELSE parts[1] \o sep \o Join(Tail(parts), sep)

\* str.replace(a, b) for a one-character a and a string b
RECURSIVE Replace(_, _, _)
Replace(s, a, b) ==
  IF s = <<>> THEN <<>>
  ELSE (IF Head(s) = a THEN b ELSE <<Head(s)>>) \o Replace(Tail(s), a, b)

Upper == <<"A","B","C","D","E","F","G","H","I","J","K","L","M",
           "N","O","P","Q","R","S","T","U","V","W","X","Y","Z">>

LowerCase == <<"a","b","c","d","e","f","g","h","i","j","k","l","m",
               "n","o","p","q","r","s","t","u","v","w","x","y","z">>

LowerChar(c) ==
  IF \E i \in 1..Len(Upper) : Upper[i] = c
  THEN LowerCase[CHOOSE i \in 1..Len(Upper) : Upper[i] = c]
  ELSE c

\* str.lower()
Lower(s) == [i \in 1..Len(s) |-> LowerChar(s[i])]

\* s[:6] instead of s[-6:]
First6(s) == SubSeq(s, 1, (IF Len(s) > 6 THEN 6 ELSE Len(s)))

\* s[-6:]
SuffixLen == 6

Last6(s) == SubSeq(s, (IF Len(s) > SuffixLen THEN Len(s) - SuffixLen + 1 ELSE 1), Len(s))

\* round(n / d) for d > 0, ties to the even integer (Python 3 round)
RoundHalfEven(n, d) ==
  LET q == n \div d
      r == n % d
  IN  IF 2 * r < d THEN q
      ELSE IF 2 * r > d THEN q + 1
      ELSE IF q % 2 = 0 THEN q ELSE q + 1

-----------------------------------------------------------------------------
(* pandas tables *)

\* An input table: [columns: Seq(header), index: Seq(label), data: Seq(Seq(cell))],
\* data[r][c] being the cell of row r under columns[c].
Col(name) == <<name>>

HasCol(df, name) == \E c \in 1..Len(df.columns) : df.columns[c] = Col(name)

ColPos(df, name) == CHOOSE c \in 1..Len(df.columns) : df.columns[c] = Col(name)

\* row[name] of the row at position r (defined when HasCol)
RowAt(df, r, name) == df.data[r][ColPos(df, name)]

NRows(df) == Len(df.index)

\* df.columns.str.strip()
StripColumns(df) ==
  [df EXCEPT !.columns = [c \in 1..Len(df.columns) |-> Strip(df.columns[c])]]

\* pd.to_numeric(x, errors='coerce') of one cell
ToNumeric(c) == IF c.k = "num" THEN c ELSE NaN

\* fillna left out: a missing value stays missing
FillNaSkipped(c) == c

\* .fillna(0) of one cell
FillNa(c) == IF IsNull(c) THEN Num(0) ELSE c

\* df[name] = values (a new column, appended last)
AddColumn(df, name, values) ==
  [df EXCEPT !.columns = Append(df.columns, Col(name)),
             !.data = [r \in 1..Len(df.data) |-> Append(df.data[r], values[r])]]

\* An output table: [columns: Seq(name), index: Seq(label), data: Seq([name -> cell])].
\* pd.DataFrame(columns=cols)
EmptyFrame(cols) == [columns |-> cols, index |-> <<>>, data |-> <<>>]

ColSet(df) == {df.columns[c] : c \in 1..Len(df.columns)}

HasLabel(df, label) == \E r \in 1..Len(df.index) : df.index[r] = label

LabelPos(df, label) == CHOOSE r \in 1..Len(df.index) : df.index[r] = label

\* AtSet with the row taken by position 0 instead of by label
AtSetFirstRow(df, label, col, v) ==
  IF df.index # <<>>
  THEN [df EXCEPT !.data[1][col] = v]
  ELSE [df EXCEPT !.index = Append(df.index, label),
                  !.data = Append(df.data,
                                  [c \in ColSet(df) |-> IF c = col THEN v ELSE NaN])]

\* df.at[label, col] = v: sets the cell, adding the row (all NaN) when the label is new
AtSet(df, label, col, v) ==
  IF HasLabel(df, label)
  THEN [df EXCEPT !.data[LabelPos(df, label)][col] = v]
  ELSE [df EXCEPT !.index = Append(df.index, label),
                  !.data = Append(df.data,
                                  [c \in ColSet(df) |-> IF c = col THEN v ELSE NaN])]

\* a block of .at assignments to one row, in order
RECURSIVE AtSetAll(_, _, _)
AtSetAll(df, label, assigns) ==
  IF assigns = <<>> THEN df
  ELSE AtSetAll(AtSet(df, label, assigns[1][1], assigns[1][2]), label, Tail(assigns))

-----------------------------------------------------------------------------
(* The column lists of the source *)

numeric_cols_to_check ==
  <<"Retail Price", "End Weight (lbs)", "Quantity", "Burn Time",
    "End Weight", "Height", "Width">>

required_cols ==
  <<"SKU", "Fragrance - Vessel Description", "Retail Price",
    "End Weight (lbs)", "Quantity">>

NetsuiteColumns ==
  <<"externalid", "itemid", "Display Name", "unitstype", "subsidiary",
    "includechildren", "location", "track landed cost", "costingmethod",
    "costcategory", "atpmethod", "autopreferredstocklevel",
    "isspecialorderitem", "usebins", "cogsaccount", "incomeaccount",
    "assetaccount", "taxSchedule", "isinactive", "Price", "Weight">>

ShopifyColumns ==
  <<"Handle", "Title", "Body (HTML)", "Vendor", "Tags", "Published",
    "Option1 Name", "Option1 Value", "Option2 Name", "Option2 Value",
    "Option3 Name", "Option3 Value", "Variant SKU", "Variant Grams",
    "Variant Inventory Tracker", "Variant Inventory Qty",
    "Variant Inventory Policy", "Variant Fulfillment Service", "Variant Price",
    "Variant Compare At Price", "Variant Requires Shipping", "Variant Taxable",
    "Variant Barcode", "Image Src", "Image Position", "Image Alt Text",
    "Gift Card", "SEO Title", "SEO Description",
    "Google Shopping / Google Product Category", "Google Shopping / Gender",
    "Google Shopping / Age Group", "Google Shopping / MPN",
    "Google Shopping / AdWords Grouping", "Google Shopping / AdWords Labels",
    "Google Shopping / Condition", "Google Shopping / Custom Product",
    "Google Shopping / Custom Label 0", "Google Shopping / Custom Label 1",
    "Google Shopping / Custom Label 2", "Google Shopping / Custom Label 3",
    "Google Shopping / Custom Label 4", "Variant Image", "Variant Weight Unit",
    "Variant Tax Code", "Cost per item", "Status", "Standard Product Type",
    "Custom Product Type">>

InventoryColumns ==
  <<"External ID", "Full name", "Account", "Class", "Department", "memo",
    "line qty adj", "Line adj loc", "Line memo", "itemId">>

-----------------------------------------------------------------------------
(* Field derivations of the row loop *)

\* an integer of the source (318, a rounded gram count) as a number
Whole(v) == Num(v * 1000)

\* a literal of the source as a cell
Lit(t) == Txt(<<t>>)

\* str(row['Fragrance - Vessel Description'])
original_description(df, r) == Str(RowAt(df, r, "Fragrance - Vessel Description"))

StripAll(parts) == [i \in 1..Len(parts) |-> Strip(parts[i])]

\* the display name joined without trimming the parts
JoinUntrimmed(desc) == Join(Split(desc, <<"|">>), <<" ", "-", " ">>)

\* ' - '.join([part.strip() for part in original_description.split('|')])
netsuite_display_name(desc) ==
  Join(StripAll(Split(desc, <<"|">>)), <<" ", "-", " ">>)

\* str(row['SKU'])
sku_str(df, r) == Str(RowAt(df, r, "SKU"))

\* 'Antique Restock ' + sku_str[-6:]
RestockMemo(sku) == <<"Antique Restock ">> \o Last6(sku)

\* sku_str.replace(' ', '')
shopify_handle(sku) == Replace(sku, " ", <<>>)

\* original_description.replace('|', '-')
parseable_name_for_tags(desc) == Replace(desc, "|", <<"-">>)

\* parseable_name_for_tags.split('-')[0].strip()
fragrance(desc) == Strip(Split(parseable_name_for_tags(desc), <<"-">>)[1])

\* fragrance.replace(' ', '-').lower()
smells_like(desc) == Lower(Replace(fragrance(desc), " ", <<"-">>))

\* round(row['End Weight (lbs)'] * 453.592)
variant_grams(lbs) == Whole(RoundHalfEven(lbs.n * 453592, 1000000))

\* row.get(name, 'N/A'), formatted
GetOrNA(df, r, name) ==
  IF HasCol(df, name) THEN Str(RowAt(df, r, name)) ELSE <<"N/A">>

\* the f-string of Body (HTML); row['Burn Time'] raises KeyError when the column
\* is absent, so the body is defined only when BodyRaises is false
BodyRaises(df) == ~HasCol(df, "Burn Time")

BodyHtml(df, r) ==
  <<"<p data-mce-fragment=1>Approximate Burn Time: ">>
    \o Str(RowAt(df, r, "Burn Time"))
    \o <<" hours</p><p data-mce-fragment=1>Weight: ">>
    \o Str(RowAt(df, r, "End Weight"))
    \o <<" oz</p><p data-mce-fragment=1>Dimensions: ">>
    \o GetOrNA(df, r, "Height")
    \o <<"in Height x ">>
    \o GetOrNA(df, r, "Width")
    \o <<"in Width</p>">>

TagsOf(sku, desc) ==
  <<"_tab2_antique-restock-101,antique">> \o Last6(sku)
    \o <<",_tab1_">> \o smells_like(desc)
    \o <<"-smells-like, ">> \o fragrance(desc)

-----------------------------------------------------------------------------
(* Record mappers: the .at assignments of one loop iteration, in source order *)

cogsaccount == 318

incomeaccount == 429

assetaccount == 227

Account == 325

NetsuiteAssigns(df, r) ==
  << <<"externalid", RowAt(df, r, "SKU")>>,
     <<"itemid", RowAt(df, r, "SKU")>>,
     <<"Display Name", Txt(netsuite_display_name(original_description(df, r)))>>,
     <<"unitstype", Lit("Quantity")>>,
     <<"location", Lit("ACC 1611")>>,
     <<"track landed cost", Lit("FALSE")>>,
     <<"costingmethod", Lit("AVERAGE")>>,
     <<"costcategory", Lit("Default")>>,
     <<"atpmethod", Lit("Discrete ATP")>>,
     <<"autopreferredstocklevel", Lit("TRUE")>>,
     <<"isspecialorderitem", Lit("FALSE")>>,
     <<"usebins", Lit("FALSE")>>,
     <<"cogsaccount", Whole(cogsaccount)>>,
     <<"incomeaccount", Whole(incomeaccount)>>,
     <<"assetaccount", Whole(assetaccount)>>,
     <<"taxSchedule", Lit("Non-taxable")>>,
     <<"isinactive", Lit("FALSE")>>,
     <<"Price", RowAt(df, r, "Retail Price")>>,
     <<"Weight", RowAt(df, r, "End Weight (lbs)")>> >>

InventoryAssigns(df, r) ==
  << <<"External ID", Txt(RestockMemo(sku_str(df, r)))>>,
     <<"Full name",
       Txt(Str(RowAt(df, r, "SKU")) \o <<" ">>
             \o netsuite_display_name(original_description(df, r)))>>,
     <<"Account", Whole(Account)>>,
     <<"Class", Lit("Operations : Production")>>,
     <<"Department", Lit("Retail")>>,
     <<"memo", Txt(RestockMemo(sku_str(df, r)))>>,
     <<"line qty adj", RowAt(df, r, "Quantity")>>,
     <<"Line adj loc", Lit("ACC 1611")>>,
     <<"Line memo", Txt(RestockMemo(sku_str(df, r)))>>,
     <<"itemId", RowAt(df, r, "SKU")>> >>

\* the Shopify assignments made before the Body (HTML) f-string is evaluated
ShopifyAssignsHead(df, r) ==
  << <<"Handle", Txt(shopify_handle(sku_str(df, r)))>>,
     <<"Title", Txt(original_description(df, r))>> >>

\* the Shopify assignments from Body (HTML) on
ShopifyAssignsRest(df, r) ==
  << <<"Body (HTML)", Txt(BodyHtml(df, r))>>,
     <<"Tags", Txt(TagsOf(sku_str(df, r), original_description(df, r)))>>,
     <<"Published", Lit("FALSE")>>,
     <<"Variant SKU", RowAt(df, r, "SKU")>>,
     <<"Variant Grams", variant_grams(RowAt(df, r, "End Weight (lbs)"))>>,
     <<"Variant Inventory Tracker", Lit("shopify")>>,
     <<"Variant Inventory Policy", Lit("deny")>>,
     <<"Variant Fulfillment Service", Lit("manual")>>,
     <<"Variant Price", RowAt(df, r, "Retail Price")>>,
     <<"Variant Requires Shipping", Lit("TRUE")>>,
     <<"Variant Taxable", Lit("TRUE")>>,
     <<"Gift Card", Lit("FALSE")>>,
     <<"Variant Weight Unit", Lit("lb")>>,
     <<"Status", Lit("active")>> >>

-----------------------------------------------------------------------------
(* Data cleaning *)

\* numeric_cols = [col for col in numeric_cols_to_check if col in df.columns]
numeric_cols(df) == SelectSeq(numeric_cols_to_check, LAMBDA c : HasCol(df, c))

\* missing_cols that reports the first missing column only
FirstMissingCol(df) ==
  LET m == SelectSeq(required_cols, LAMBDA c : ~HasCol(df, c)) IN
  IF m = <<>> THEN <<>> ELSE <<m[1]>>

\* missing_cols = [col for col in required_cols if col not in df.columns]
missing_cols(df) == SelectSeq(required_cols, LAMBDA c : ~HasCol(df, c))

\* pd.to_numeric(df[col], errors='coerce').fillna(0), one cell
CoerceCell(c) == FillNa(ToNumeric(c))

\* df[name] = pd.to_numeric(df[name], errors='coerce').fillna(0), cell by cell
CoerceColumn(df, name) ==
  LET p == ColPos(df, name) IN
  [df EXCEPT !.data = [r \in 1..Len(df.data) |->
                         [df.data[r] EXCEPT ![p] = CoerceCell(df.data[r][p])]]]

\* for col in numeric_cols: ...
RECURSIVE CoerceColumns(_, _)
CoerceColumns(df, cols) ==
  IF cols = <<>> THEN df
  ELSE CoerceColumns(CoerceColumn(df, cols[1]), Tail(cols))

\* df['End Weight (lbs)'] * 16
LbsToOz(c) == Num(c.n * 16)

\* if 'End Weight' not in df.columns and 'End Weight (lbs)' in df.columns: ...
AddEndWeight(df) ==
  IF ~HasCol(df, "End Weight") /\ HasCol(df, "End Weight (lbs)")
  THEN AddColumn(df, "End Weight",
                 [r \in 1..Len(df.data) |-> LbsToOz(RowAt(df, r, "End Weight (lbs)"))])
  ELSE df

\* df.head()
DfHead(df) ==
  LET n == IF Len(df.index) < 5 THEN Len(df.index) ELSE 5 IN
  [df EXCEPT !.index = SubSeq(df.index, 1, n), !.data = SubSeq(df.data, 1, n)]

\* the st.error text of the column check (without its backquotes)
MissingColumnsMessage(missing) ==
  <<"**Error:** Your file is missing the following required columns: ">>
    \o Join([i \in 1..Len(missing) |-> <<missing[i]>>], <<", ">>)

\* the st.error text of the except clause; the only exception the modelled loop
\* raises is KeyError('Burn Time')
UnexpectedErrorMessage == <<"An unexpected error occurred: ", "Burn Time">>

\* df.to_csv(index=False): the header row and the data rows, without the index
convert_df_to_csv(df) ==
  [header |-> df.columns,
   lines |-> [r \in 1..Len(df.data) |-> [c \in 1..Len(df.columns) |-> df.data[r][df.columns[c]]]]]

\* one column of the results page: st.header, st.dataframe, st.download_button
Exposure(title, df) ==
  [header |-> title, dataframe |-> df, download |-> convert_df_to_csv(df)]

-----------------------------------------------------------------------------
(* Uploaded files the run is checked on *)

SourceColumns ==
  <<"SKU", "Fragrance - Vessel Description", "Retail Price", "End Weight (lbs)",
    "Quantity", "Burn Time", "End Weight", "Height", "Width">>

OptionalColumns == {"Burn Time", "End Weight", "Height", "Width"}

RequiredSet == {required_cols[i] : i \in 1..Len(required_cols)}

NumericSet == {numeric_cols_to_check[i] : i \in 1..Len(numeric_cols_to_check)}

\* the sets of columns a file may lack: any required ones, or any optional ones
AbsentChoices == (SUBSET RequiredSet) \cup (SUBSET OptionalColumns)

Spaces(p) == [i \in 1..p |-> " "]

\* a header as typed: the name with p blanks on each side
RawHeader(name, p) == Spaces(p) \o <<name>> \o Spaces(p)

SKU_A == <<"A", "B", "C", "1", "2", "3", "4", "5", "6">>

DESC_A == <<"V", "a", "n", "i", "l", "l", "a", " ", "B", "e", "a", "n", " ", "|", " ", "M", "a", "s", "o", "n", " ", "J", "a", "r">>

RawCells == <<NaN, Txt(<<"N/A">>), Num(-2000), Num(1500)>>

Items ==
  << [sku |-> Txt(SKU_A), desc |-> Txt(DESC_A)],
     [sku |-> Txt(<<"A", " ", "1", "2">>), desc |-> NaN] >>

Rotations == 0..(Len(RawCells) - 1)

NumericPos(name) ==
  CHOOSE j \in 1..Len(numeric_cols_to_check) : numeric_cols_to_check[j] = name

\* the raw cell of column `name` in a row made of item `it` with rotation `rot`
RawCellOf(name, it, rot) ==
  IF name = "SKU" THEN it.sku
  ELSE IF name = "Fragrance - Vessel Description" THEN it.desc
  ELSE RawCells[((NumericPos(name) + rot) % Len(RawCells)) + 1]

\* the file with the columns `absent` left out, headers padded by p, and one row
\* per entry <<item, rotation>> of `rows`; labels are read_csv's RangeIndex
MakeFile(absent, p, rows) ==
  LET present == SelectSeq(SourceColumns, LAMBDA c : c \notin absent) IN
  [columns |-> [c \in 1..Len(present) |-> RawHeader(present[c], p)],
   index |-> [r \in 1..Len(rows) |-> r - 1],
   data |-> [r \in 1..Len(rows) |->
               [c \in 1..Len(present) |-> RawCellOf(present[c], rows[r][1], rows[r][2])]]]

\* the rows a file is made of: every rotation of the raw cells, the items in turn
RowChoices == { <<Items[(rot % Len(Items)) + 1], rot>> : rot \in Rotations }

\* uploaded_file is a file of up to MaxRows rows of RowChoices, lacking one of
\* AbsentChoices, its headers padded by up to MaxPad blanks
IsTableFile(f) ==
  \E absent \in AbsentChoices, p \in 0..MaxPad, n \in 0..MaxRows :
    \E rows \in [1..n -> RowChoices] : f = MakeFile(absent, p, rows)

SeqsUpTo(alphabet, n) == UNION { [1..k -> alphabet] : k \in 0..n }

DescAlphabet == {"a", " ", "-", "|"}

SkuAlphabet == {"A", " "}

TextRow(sku, desc) == << <<[sku |-> Txt(sku), desc |-> Txt(desc)], 3>> >>

\* uploaded_file is a one-row file with every column, over all short descriptions
\* and all short SKUs
IsTextFile(f) ==
  \/ \E d \in SeqsUpTo(DescAlphabet, MaxDescLen) : f = MakeFile({}, 0, TextRow(SKU_A, d))
  \/ \E k \in SeqsUpTo(SkuAlphabet, MaxSkuLen) : f = MakeFile({}, 0, TextRow(k, DESC_A))

-----------------------------------------------------------------------------
(* The run *)

NoTable == EmptyFrame(<<>>)

Init ==
  /\ IsTableFile(uploaded_file) \/ IsTextFile(uploaded_file)
  /\ antique_import = NoTable
  /\ netsuite_import = NoTable
  /\ shopify_import = NoTable
  /\ netsuite_inventory_adjustment = NoTable
  /\ index = 0
  /\ pc = "read"
  /\ errors = <<>>
  /\ preview = <<>>
  /\ shown = <<>>

\* antique_import = pd.read_csv(uploaded_file); columns = columns.str.strip()
ReadCsv ==
  /\ pc = "read"
  /\ antique_import' = StripColumns(uploaded_file)
  /\ pc' = "check"
  /\ UNCHANGED <<uploaded_file, netsuite_import, shopify_import,
                 netsuite_inventory_adjustment, index, errors, preview, shown>>

\* if missing_cols: st.error(...); st.stop()
MissingColumns ==
  /\ pc = "check"
  /\ missing_cols(antique_import) # <<>>
  /\ errors' = Append(errors, MissingColumnsMessage(missing_cols(antique_import)))
  /\ pc' = "stopped"
  /\ UNCHANGED <<uploaded_file, antique_import, netsuite_import, shopify_import,
                 netsuite_inventory_adjustment, index, preview, shown>>

\* the numeric coercion, the End Weight column, the preview and the three empty
\* output tables
Clean ==
  /\ pc = "check"
  /\ missing_cols(antique_import) = <<>>
  /\ LET cleaned == AddEndWeight(CoerceColumns(antique_import, numeric_cols(antique_import)))
     IN  /\ antique_import' = cleaned
         /\ preview' = Append(preview, DfHead(cleaned))
  /\ netsuite_import' = EmptyFrame(NetsuiteColumns)
  /\ shopify_import' = EmptyFrame(ShopifyColumns)
  /\ netsuite_inventory_adjustment' = EmptyFrame(InventoryColumns)
  /\ index' = 0
  /\ pc' = "loop"
  /\ UNCHANGED <<uploaded_file, errors, shown>>

\* one iteration of for index, row in antique_import.iterrows()
IterRow ==
  /\ pc = "loop"
  /\ index < NRows(antique_import)
  /\ LET r == index + 1
         label == antique_import.index[r]
     IN  /\ netsuite_import' =
               AtSetAll(netsuite_import, label, NetsuiteAssigns(antique_import, r))
         /\ netsuite_inventory_adjustment' =
               AtSetAll(netsuite_inventory_adjustment, label,
                        InventoryAssigns(antique_import, r))
         /\ IF BodyRaises(antique_import)
            THEN /\ shopify_import' =
                      AtSetAll(shopify_import, label, ShopifyAssignsHead(antique_import, r))
                 /\ pc' = "except"
                 /\ index' = index
            ELSE /\ shopify_import' =
                      AtSetAll(shopify_import, label,
                               ShopifyAssignsHead(antique_import, r)
                                 \o ShopifyAssignsRest(antique_import, r))
                 /\ pc' = "loop"
                 /\ index' = index + 1
  /\ UNCHANGED <<uploaded_file, antique_import, errors, preview, shown>>

\* Display indented into the loop body: the results page is built as soon as
\* the first iteration is over
DisplayInsideLoop ==
  /\ pc = "loop"
  /\ index >= 1 \/ index = NRows(antique_import)
  /\ shown' = shown \o << Exposure("NetSuite Import", netsuite_import),
                          Exposure("Shopify Import", shopify_import),
                          Exposure("Inventory Adjustment", netsuite_inventory_adjustment) >>
  /\ pc' = "done"
  /\ UNCHANGED <<uploaded_file, antique_import, netsuite_import, shopify_import,
                 netsuite_inventory_adjustment, index, errors, preview>>

\* after the loop: st.info and the three columns of the results page
Display ==
  /\ pc = "loop"
  /\ index = NRows(antique_import)
  /\ shown' = shown \o << Exposure("NetSuite Import", netsuite_import),
                          Exposure("Shopify Import", shopify_import),
                          Exposure("Inventory Adjustment", netsuite_inventory_adjustment) >>
  /\ pc' = "done"
  /\ UNCHANGED <<uploaded_file, antique_import, netsuite_import, shopify_import,
                 netsuite_inventory_adjustment, index, errors, preview>>

\* except Exception as e: st.error(...)
Except ==
  /\ pc = "except"
  /\ errors' = Append(errors, UnexpectedErrorMessage)
  /\ pc' = "failed"
  /\ UNCHANGED <<uploaded_file, antique_import, netsuite_import, shopify_import,
                 netsuite_inventory_adjustment, index, preview, shown>>

Next == ReadCsv \/ MissingColumns \/ Clean \/ IterRow \/ Display \/ Except

Spec == Init /\ [][Next]_vars

-----------------------------------------------------------------------------
(* Facts about the uploaded file, stated on the file as uploaded *)

\* header h is `name` with blanks around it
IsHeaderOf(h, name) ==
  \E k \in 1..Len(h) : h[k] = name /\ \A j \in 1..Len(h) : j # k => h[j] = " "

Present(name) ==
  \E c \in 1..Len(uploaded_file.columns) : IsHeaderOf(uploaded_file.columns[c], name)

AllRequiredPresent == \A name \in RequiredSet : Present(name)

InputRows == Len(uploaded_file.data)

\* the uploaded cell of row i under column `name` (for a present column)
InputCell(i, name) ==
  uploaded_file.data[i][CHOOSE c \in 1..Len(uploaded_file.columns) :
                          IsHeaderOf(uploaded_file.columns[c], name)]

Unparseable(c) == c.k # "num"

\* the number a raw numeric cell stands for: its value, 0 when empty or unparseable
ExpectedNumber(c) == IF c.k = "num" THEN c.n ELSE 0

\* the string form of a raw cell
TextOf(c) == IF c.k = "str" THEN c.s ELSE <<"n", "a", "n">>

OutputTables == <<netsuite_import, shopify_import, netsuite_inventory_adjustment>>

Cleaned == pc \in {"loop", "except", "failed", "done"}

LoopCompleted == (pc = "loop" /\ index = NRows(antique_import)) \/ pc = "done"

RunFailed == pc \in {"except", "failed"}

RunEnded == pc \in {"stopped", "failed", "done"}

-----------------------------------------------------------------------------
(* C1 *)

\* output row i carries the identifying and numeric fields of input row i
BuiltFromInputRow(i) ==
  /\ netsuite_import.data[i]["externalid"] = InputCell(i, "SKU")
  /\ netsuite_import.data[i]["itemid"] = InputCell(i, "SKU")
  /\ netsuite_import.data[i]["Price"] = Num(ExpectedNumber(InputCell(i, "Retail Price")))
  /\ netsuite_import.data[i]["Weight"] = Num(ExpectedNumber(InputCell(i, "End Weight (lbs)")))
  /\ shopify_import.data[i]["Variant SKU"] = InputCell(i, "SKU")
  /\ shopify_import.data[i]["Title"] = Txt(TextOf(InputCell(i, "Fragrance - Vessel Description")))
  /\ shopify_import.data[i]["Variant Price"] = Num(ExpectedNumber(InputCell(i, "Retail Price")))
  /\ netsuite_inventory_adjustment.data[i]["itemId"] = InputCell(i, "SKU")
  /\ netsuite_inventory_adjustment.data[i]["line qty adj"]
       = Num(ExpectedNumber(InputCell(i, "Quantity")))

\* C1: when the file has every required column and the row loop has completed,
\* each of the three output tables has exactly as many rows as the input, in the
\* input's order, and row i of each is built from row i of the input.
C1_RowForRow ==
  (AllRequiredPresent /\ LoopCompleted) =>
    /\ \A t \in 1..3 :
         /\ Len(OutputTables[t].data) = InputRows
         /\ OutputTables[t].index = uploaded_file.index
    /\ \A i \in 1..InputRows : BuiltFromInputRow(i)

\* a completed run over two rows that differ
C1_Witness ==
  /\ pc = "done"
  /\ InputRows = 2
  /\ uploaded_file.data[1] # uploaded_file.data[2]
  /\ Len(shopify_import.data) = 2

-----------------------------------------------------------------------------
(* C2 *)

Tokens(s) == {s[i] : i \in 1..Len(s)}

\* C2: when a required column is absent after the headers are stripped, the run
\* never gets past the column check: it stops with one error that names exactly
\* the absent required columns, no row is processed, no output table gets a row
\* and nothing is shown.
C2_MissingColumnsAbort ==
  (~AllRequiredPresent) =>
    /\ pc \in {"read", "check", "stopped"}
    /\ index = 0
    /\ \A t \in 1..3 : OutputTables[t].data = <<>>
    /\ shown = <<>>
    /\ preview = <<>>
    /\ pc = "stopped" =>
         /\ Len(errors) = 1
         /\ \A name \in RequiredSet : (name \in Tokens(errors[1])) <=> ~Present(name)

\* stopped on a file with rows and padded headers that lacks two or more required columns
C2_Witness ==
  /\ pc = "stopped"
  /\ InputRows > 0
  /\ Cardinality({name \in RequiredSet : ~Present(name)}) >= 2
  /\ \E c \in 1..Len(uploaded_file.columns) : Head(uploaded_file.columns[c]) = " "

-----------------------------------------------------------------------------
(* C3 *)

\* the columns the mappers fill: all of the NetSuite item columns but two, the
\* sixteen Shopify columns, and every inventory-adjustment column
NetsuiteFilled == ColSet(EmptyFrame(NetsuiteColumns)) \ {"subsidiary", "includechildren"}

ShopifyFilled ==
  {"Handle", "Title", "Body (HTML)", "Tags", "Published", "Variant SKU",
   "Variant Grams", "Variant Inventory Tracker", "Variant Inventory Policy",
   "Variant Fulfillment Service", "Variant Price", "Variant Requires Shipping",
   "Variant Taxable", "Gift Card", "Variant Weight Unit", "Status"}

InventoryFilled == ColSet(EmptyFrame(InventoryColumns))

\* every cell the mappers fill is set in row i of each output table; an empty
\* SKU cell is copied as it is
RowComplete(i) ==
  /\ \A c \in NetsuiteFilled \ {"externalid", "itemid"} :
       ~IsNull(netsuite_import.data[i][c])
  /\ \A c \in ShopifyFilled \ {"Variant SKU"} : ~IsNull(shopify_import.data[i][c])
  /\ \A c \in InventoryFilled \ {"itemId"} :
       ~IsNull(netsuite_inventory_adjustment.data[i][c])

\* C3: output tables are exposed only all three at once, only after the row loop
\* has processed every input row, and exactly as they stand then; a run that
\* stopped on the column check or failed in the loop has exposed nothing.
C3_Atomic ==
  /\ shown # <<>> =>
       /\ pc = "done"
       /\ index = InputRows
       /\ Len(shown) = 3
       /\ \A t \in 1..3 :
            /\ shown[t].dataframe = OutputTables[t]
            /\ Len(shown[t].dataframe.data) = InputRows
            /\ Len(shown[t].download.lines) = InputRows
       /\ \A i \in 1..InputRows : RowComplete(i)
  /\ pc = "done" => Len(shown) = 3
  /\ (RunFailed \/ pc = "stopped") => shown = <<>>

\* a failed run that has built part of the tables and shown none of them
C3_Witness ==
  /\ pc = "failed"
  /\ Len(netsuite_import.data) = 1
  /\ Len(shopify_import.data) = 1
  /\ IsNull(shopify_import.data[1]["Status"])
  /\ InputRows = 2
  /\ shown = <<>>

-----------------------------------------------------------------------------
(* C4 *)

NormalizedCell(r, name) == RowAt(antique_import, r, name)

\* C4 as stated: after normalization every value of every present numeric column
\* is a number, not null and not negative.
C4_NonNegative ==
  Cleaned =>
    \A name \in NumericSet : HasCol(antique_import, name) =>
      \A r \in 1..InputRows :
        /\ NormalizedCell(r, name).k = "num"
        /\ NormalizedCell(r, name).n >= 0

\* C4 amended: after normalization every value of every present numeric column is
\* a number and never null: the number the uploaded cell parses as, 0 when it
\* is empty or unparseable, and for a synthesized End Weight 16 times the
\* normalized End Weight (lbs); a cell that parses as a negative number stays
\* negative.
C4_NumbersNeverNull ==
  Cleaned =>
    \A name \in NumericSet : HasCol(antique_import, name) =>
      \A r \in 1..InputRows :
        /\ NormalizedCell(r, name).k = "num"
        /\ NormalizedCell(r, name).s = <<>>
        /\ Present(name) =>
             NormalizedCell(r, name).n = ExpectedNumber(InputCell(r, name))
        /\ ~Present(name) =>
             /\ name = "End Weight"
             /\ NormalizedCell(r, name).n
                  = 16 * ExpectedNumber(InputCell(r, "End Weight (lbs)"))

\* a normalized table holding a negative number, and one holding the 0 of an
\* uploaded cell that was empty or unparseable
C4_Witness ==
  /\ Cleaned
  /\ \E r \in 1..InputRows : NormalizedCell(r, "Retail Price").n < 0
  /\ \E r \in 1..InputRows :
       /\ Unparseable(InputCell(r, "Quantity"))
       /\ NormalizedCell(r, "Quantity") = Num(0)
  /\ ~Present("End Weight")

-----------------------------------------------------------------------------
(* C5 *)

RowProduced(i) == \A t \in 1..3 : Len(OutputTables[t].data) >= i

\* the output fields that copy numeric column `name` are 0 in row i
CopiedFieldsZero(i, name) ==
  /\ name = "Retail Price" =>
       /\ netsuite_import.data[i]["Price"] = Num(0)
       /\ shopify_import.data[i]["Variant Price"] = Num(0)
  /\ name = "End Weight (lbs)" =>
       /\ netsuite_import.data[i]["Weight"] = Num(0)
       /\ shopify_import.data[i]["Variant Grams"] = Num(0)
  /\ name = "Quantity" =>
       netsuite_inventory_adjustment.data[i]["line qty adj"] = Num(0)

\* C5: an empty or unparseable cell of a numeric column is never an error: once
\* the run over a file with the required columns has ended, it has ended well,
\* the cell is 0 in the normalized table, and the row holding it is in all three
\* output tables with the fields copied from it equal to 0.
C5_CoercedRowProduced ==
  (AllRequiredPresent /\ RunEnded) =>
    \A i \in 1..InputRows : \A name \in NumericSet :
      (Present(name) /\ Unparseable(InputCell(i, name))) =>
        /\ pc = "done"
        /\ NormalizedCell(i, name) = Num(0)
        /\ RowProduced(i)
        /\ CopiedFieldsZero(i, name)

-----------------------------------------------------------------------------
(* C6 *)

\* C6: over a file with the five required columns, whatever optional columns are
\* absent, the row loop never fails, and the ended run has produced every row.
C6_OptionalColumnsNeverFail ==
  AllRequiredPresent =>
    /\ ~RunFailed
    /\ RunEnded => (pc = "done" /\ \A i \in 1..InputRows : RowProduced(i))

-----------------------------------------------------------------------------
(* C7 *)

\* what Body (HTML) shows for dimension `name` of row i
RenderedDimension(i, name) ==
  IF Present(name) THEN ToString(ExpectedNumber(InputCell(i, name))) ELSE "N/A"

\* C7: when Height or Width is absent the run does not fail, and in the ended run
\* the Body (HTML) of every row shows "N/A" where the absent dimension goes and
\* the normalized number where the present one goes.
C7_DimensionPlaceholder ==
  (AllRequiredPresent /\ (~Present("Height") \/ ~Present("Width"))) =>
    /\ ~RunFailed
    /\ pc = "done" =>
         \A i \in 1..InputRows :
           /\ Len(shopify_import.data[i]["Body (HTML)"].s) = 9
           /\ shopify_import.data[i]["Body (HTML)"].s[6] = RenderedDimension(i, "Height")
           /\ shopify_import.data[i]["Body (HTML)"].s[8] = RenderedDimension(i, "Width")

-----------------------------------------------------------------------------
(* C8 *)

Dash3 == <<" ", "-", " ">>

DescriptionOf(i) == TextOf(InputCell(i, "Fragrance - Vessel Description"))

TrimmedSegments(d) == StripAll(Split(d, <<"|">>))

DisplayNameOf(i) == netsuite_import.data[i]["Display Name"].s

EndsWithSpaceDash(seg) ==
  Len(seg) >= 2 /\ seg[Len(seg) - 1] = " " /\ seg[Len(seg)] = "-"

\* C8 as stated: for every description without " - ", splitting the Display Name
\* on " - " gives back the trimmed pipe segments of the description.
C8_RoundTrip ==
  \A i \in 1..Len(netsuite_import.data) :
    ~Contains(DescriptionOf(i), Dash3) =>
      Split(DisplayNameOf(i), Dash3) = TrimmedSegments(DescriptionOf(i))

\* C8 amended: for every description without " - " in which no trimmed pipe
\* segment other than the last ends with " -", splitting the Display Name on
\* " - " gives back the trimmed pipe segments of the description.
C8_RoundTripNoTrailingDash ==
  \A i \in 1..Len(netsuite_import.data) :
    LET segs == TrimmedSegments(DescriptionOf(i)) IN
    (/\ ~Contains(DescriptionOf(i), Dash3)
     /\ \A j \in 1..(Len(segs) - 1) : ~EndsWithSpaceDash(segs[j])) =>
      Split(DisplayNameOf(i), Dash3) = segs

\* a processed description of three segments: a dash, a padded one, an empty one
C8_Witness ==
  /\ pc = "done"
  /\ Len(netsuite_import.data) = 1
  /\ DescriptionOf(1) = <<"-", "|", " ", "a", "|">>
  /\ DisplayNameOf(1) = <<"-", " ", "-", " ", "a", " ", "-", " ">>
  /\ Split(DisplayNameOf(1), Dash3) = << <<"-">>, <<"a">>, <<>> >>

-----------------------------------------------------------------------------
(* C9 *)

SkuTextOf(i) == TextOf(InputCell(i, "SKU"))

IsSuffixOf(suf, s) ==
  /\ Len(suf) <= Len(s)
  /\ \A j \in 1..Len(suf) : suf[j] = s[Len(s) - Len(suf) + j]

\* the suffix carried by an inventory-adjustment text: what follows its first token
AfterLiteral(t) == SubSeq(t, 2, Len(t))

\* C9: in every inventory-adjustment row External ID, memo and Line memo are all
\* "Antique Restock " followed by the same suffix, which is the last
\* min(6, len(SKU)) characters of the SKU's string form; the Shopify Tags of a
\* produced row carry that suffix too.
C9_SkuSuffix ==
  \A i \in 1..Len(netsuite_inventory_adjustment.data) :
    LET row == netsuite_inventory_adjustment.data[i]
        ext == row["External ID"].s
        suf == AfterLiteral(ext)
        sku == SkuTextOf(i)
    IN  /\ ext # <<>>
        /\ ext[1] = "Antique Restock "
        /\ Len(suf) = (IF Len(sku) < 6 THEN Len(sku) ELSE 6)
        /\ IsSuffixOf(suf, sku)
        /\ row["memo"].s = ext
        /\ row["Line memo"].s = ext
        /\ (Len(shopify_import.data) >= i /\ ~IsNull(shopify_import.data[i]["Tags"])) =>
             /\ SubSeq(shopify_import.data[i]["Tags"].s, 2, Len(suf) + 1) = suf
             /\ shopify_import.data[i]["Tags"].s[Len(suf) + 2] = ",_tab1_"

\* a produced row whose SKU is longer than six characters and starts with a blank
C9_Witness ==
  /\ pc = "done"
  /\ Len(netsuite_inventory_adjustment.data) = 1
  /\ Len(SkuTextOf(1)) = 7
  /\ SkuTextOf(1)[1] = " "
  /\ AfterLiteral(netsuite_inventory_adjustment.data[1]["External ID"].s)
       = <<"A", "A", "A", "A", "A", "A">>

-----------------------------------------------------------------------------
(* C5 and C7 fail only on files without the Burn Time column (C6) *)

\* C5 restricted to files that have the Burn Time column
C5_WithBurnTime == Present("Burn Time") => C5_CoercedRowProduced

\* C7 restricted to files that have the Burn Time column
C7_WithBurnTime == Present("Burn Time") => C7_DimensionPlaceholder

====
